---- MODULE Spec2Model ----
(***************************************************************************)
(* Model of main.py: the /chat handler and generate_response_with_gemini,  *)
(* the two-stage (generate, then translate) resolver over the process-wide *)
(* response_cache.  Requests run in worker threads of the Flask server;    *)
(* a worker's position is the source line it executes next.  Strings are   *)
(* strings: a cache key is the concatenation the f-string builds.          *)
(***************************************************************************)
EXTENDS Integers, Sequences, FiniteSets, TLC

(* ----------------------------- bounds --------------------------------- *)

\* Number of requests dispatched over the process lifetime.
MaxRequests == 2

\* Number of different texts the LLM may produce for one prompt.
NumAnswers == 1

\* The worker threads of the server: two requests can run at once.
Workers == {"w1", "w2"}

\* Values of the form field user_query (the field may also be missing).
QueryTexts == {"", "a", "a_en"}

\* Values of the form field language (the field may also be missing).
LanguageCodes == {"en", "hi", "en_en"}

(* ------------------------- program constants -------------------------- *)

LANG_MAP == [l \in {"en", "hi", "gu", "ta", "mr"} |-> l]

QUOTA_MSG == "Sorry, the API quota is exceeded. Try again later."

GENERIC_MSG == "Sorry, I'm having trouble connecting right now."

PROMPT_MSG == "Please enter a question."

EmptyMap == [k \in {} |-> ""]

(* ------------------------- request.form ------------------------------- *)

\* The forms a client may post: each field present or missing.
Forms ==
    { qf @@ lf :
        qf \in {EmptyMap} \cup { ("user_query" :> q) : q \in QueryTexts },
        lf \in {EmptyMap} \cup { ("language" :> l) : l \in LanguageCodes } }

\* request.form.get(key, default)
FormGet(form, key, default) ==
    IF key \in DOMAIN form THEN form[key] ELSE default

\* Variant: only a missing field counts (`user_query is None`).
NotQuery_NoneOnly(form) == "user_query" \notin DOMAIN form

\* `not user_query`: request.form.get("user_query") is None or "".
NotQuery(form) ==
    \/ "user_query" \notin DOMAIN form
    \/ form["user_query"] = ""

(* --------------------------- cache keys ------------------------------- *)

\* f"{user_query}_{language}"
CacheKey(query, lang) == query \o "_" \o lang

\* f"{user_query}_en"
EnglishKey(query) == query \o "_en"

\* LANG_MAP.get(language, "en")
TargetLang(lang) ==
    IF lang \in DOMAIN LANG_MAP THEN LANG_MAP[lang] ELSE "en"

\* f"{user_query}_{target_lang}"
TranslationKey(query, lang) == query \o "_" \o TargetLang(lang)

\* Variant: the write is lost.
Put_Lost(cache, key, value) == cache

\* Variant: the dict is rebound to a fresh one holding only the new entry.
Put_Clear(cache, key, value) == [k \in {key} |-> value]

\* response_cache[key] = value
Put(cache, key, value) ==
    [k \in DOMAIN cache \cup {key} |-> IF k = key THEN value ELSE cache[k]]

(* ---------------------------- backends -------------------------------- *)

\* What llm.invoke(prompt) does: return a message or raise.
LLMOutcomes ==
    [kind : {"content"}, v : 1..NumAnswers]
        \cup [kind : {"ResourceExhausted", "Exception"}, v : {0}]

\* llm.invoke(prompt).content: a text that depends on the query in the
\* prompt and on the sampling (temperature 0.7).
Content(query, v) == "ans" \o ToString(v) \o "(" \o query \o ")"

\* Variant: `except Exception` catches the quota error first.
EnglishResponse_NoQuota(query, o) ==
    IF o.kind = "content" THEN Content(query, o.v) ELSE GENERIC_MSG

\* Variant: the generic handler answers with its log text.
EnglishResponse_LogText(query, o) ==
    CASE o.kind = "content" -> Content(query, o.v)
      [] o.kind = "ResourceExhausted" -> QUOTA_MSG
      [] OTHER -> "Error calling Gemini API"

\* The try/except around llm.invoke.
EnglishResponse(query, o) ==
    CASE o.kind = "content" -> Content(query, o.v)
      [] o.kind = "ResourceExhausted" -> QUOTA_MSG
      [] OTHER -> GENERIC_MSG

\* What GoogleTranslator(...).translate(text) does: return or raise.
TrOutcomes == {"ok", "Exception"}

\* The text GoogleTranslator(source="auto", target=t).translate(text) returns.
Translate(text, target) == target \o "[" \o text \o "]"

\* Variant: a failed translation yields an empty text.
TranslatedResponse_Empty(text, target, o) ==
    IF o = "ok" THEN Translate(text, target) ELSE ""

\* The try/except around translate.
TranslatedResponse(text, target, o) ==
    IF o = "ok" THEN Translate(text, target) ELSE text

(* ------------------------------ state --------------------------------- *)

VARIABLES
    response_cache,      \* the module-level dict
    pc,                  \* per worker: the line it executes next
    form,                \* per worker: request.form of the request served
    english_response,    \* per worker: local of generate_response_with_gemini
    translated_response, \* per worker: local of generate_response_with_gemini
    response,            \* per worker: the text the handler returns
    llm_calls,           \* per (query, language): llm.invoke calls so far
    tr_calls,            \* per (query, language): translate calls so far
    trace,               \* per worker: what this request did (history)
    seq,                 \* per worker: dispatch number of its request
    dispatched,          \* number of requests dispatched so far
    parallel             \* two requests have run at the same time

vars == <<response_cache, pc, form, english_response, translated_response,
          response, llm_calls, tr_calls, trace, seq, dispatched, parallel>>

\* Locals of the handler, read from the form.
user_query(t) == form[t]["user_query"]
language(t) == FormGet(form[t], "language", "en")

cache_key(t) == CacheKey(user_query(t), language(t))
english_key(t) == EnglishKey(user_query(t))
target_lang(t) == TargetLang(language(t))
translation_key(t) == TranslationKey(user_query(t), language(t))

Pair(t) == <<user_query(t), language(t)>>

\* The (query, language) pairs a request can ask the resolver for.
Pairs == (QueryTexts \ {""}) \X LanguageCodes

\* History of one request: backend calls made, what they did, what the
\* cache lookups found, whether another request ran at the same time.
NoTrace ==
    [n_llm |-> 0, n_tr |-> 0, quota |-> FALSE, tr_failed |-> FALSE,
     hit |-> FALSE, src_cached |-> FALSE, overlapped |-> FALSE]

InFlight(t) == pc[t] \notin {"idle", "done"}

Init ==
    /\ response_cache = EmptyMap
    /\ pc = [t \in Workers |-> "idle"]
    /\ form = [t \in Workers |-> EmptyMap]
    /\ english_response = [t \in Workers |-> ""]
    /\ translated_response = [t \in Workers |-> ""]
    /\ response = [t \in Workers |-> ""]
    /\ llm_calls = [p \in Pairs |-> 0]
    /\ tr_calls = [p \in Pairs |-> 0]
    /\ trace = [t \in Workers |-> NoTrace]
    /\ seq = [t \in Workers |-> 0]
    /\ dispatched = 0
    /\ parallel = FALSE

(* ----------------------------- actions -------------------------------- *)

\* The history of the other requests when a request enters the resolver:
\* those in flight now run at the same time as another request.
Overlap(t, fresh) ==
    [u \in Workers |->
        IF u = t THEN fresh
        ELSE IF InFlight(u) THEN [trace[u] EXCEPT !.overlapped = TRUE]
        ELSE trace[u]]

\* Variant: lines 43-44 are missing, a cached entry is not returned.
Chat_NoLookup(t) ==
    /\ pc[t] \in {"idle", "done"}
    /\ dispatched < MaxRequests
    /\ dispatched' = dispatched + 1
    /\ seq' = [seq EXCEPT ![t] = dispatched + 1]
    /\ \E f \in Forms :
        /\ form' = [form EXCEPT ![t] = f]
        /\ IF NotQuery(f)
           THEN /\ response' = [response EXCEPT ![t] = PROMPT_MSG]
                /\ pc' = [pc EXCEPT ![t] = "done"]
                /\ trace' = [trace EXCEPT ![t] = NoTrace]
                /\ UNCHANGED parallel
           ELSE LET busy == \E x \in Workers : InFlight(x)
                IN  /\ parallel' = (parallel \/ busy)
                    /\ response' = [response EXCEPT ![t] = ""]
                    /\ pc' = [pc EXCEPT ![t] = "L47"]
                    /\ trace' = Overlap(t, [NoTrace EXCEPT !.overlapped = busy])
    /\ english_response' = [english_response EXCEPT ![t] = ""]
    /\ translated_response' = [translated_response EXCEPT ![t] = ""]
    /\ UNCHANGED <<response_cache, llm_calls, tr_calls>>

\* chat(), lines 98-106, with lines 42-44 of the resolver it calls: a
\* worker that is free (it has served nothing yet, or has returned its
\* last response) takes a request.  A missing or empty query is answered
\* at once; an entry cached for (query, language) is returned; anything
\* else goes on to line 47.  Reading the form touches nothing shared, so
\* the step is taken at the cache lookup; keys are never removed, so the
\* membership test and the read that follows it see the same key.  A
\* worker keeps the record of its last request until it takes the next.
Chat(t) ==
    /\ pc[t] \in {"idle", "done"}
    /\ dispatched < MaxRequests
    /\ dispatched' = dispatched + 1
    /\ seq' = [seq EXCEPT ![t] = dispatched + 1]
    /\ \E f \in Forms :
        /\ form' = [form EXCEPT ![t] = f]
        /\ IF NotQuery(f)
           THEN /\ response' = [response EXCEPT ![t] = PROMPT_MSG]
                /\ pc' = [pc EXCEPT ![t] = "done"]
                /\ trace' = [trace EXCEPT ![t] = NoTrace]
                /\ UNCHANGED parallel
           ELSE LET key == CacheKey(f["user_query"], FormGet(f, "language", "en"))
                    busy == \E x \in Workers : InFlight(x)
                IN  /\ parallel' = (parallel \/ busy)
                    /\ IF key \in DOMAIN response_cache
                       THEN /\ response' =
                                 [response EXCEPT ![t] = response_cache[key]]
                            /\ pc' = [pc EXCEPT ![t] = "done"]
                            /\ trace' =
                                 Overlap(t, [NoTrace EXCEPT
                                     !.hit = TRUE, !.overlapped = busy])
                       ELSE /\ response' = [response EXCEPT ![t] = ""]
                            /\ pc' = [pc EXCEPT ![t] = "L47"]
                            /\ trace' =
                                 Overlap(t, [NoTrace EXCEPT !.overlapped = busy])
    /\ english_response' = [english_response EXCEPT ![t] = ""]
    /\ translated_response' = [translated_response EXCEPT ![t] = ""]
    /\ UNCHANGED <<response_cache, llm_calls, tr_calls>>

\* Variant: the cached English answer is not looked up.
EnglishLookup_NoReuse(t) ==
    /\ pc[t] = "L47"
    /\ llm_calls' = [llm_calls EXCEPT ![Pair(t)] = @ + 1]
    /\ trace' = [trace EXCEPT ![t].n_llm = @ + 1]
    /\ pc' = [pc EXCEPT ![t] = "L61"]
    /\ UNCHANGED <<response_cache, form, english_response, translated_response,
                   response, tr_calls, seq, dispatched, parallel>>

\* Lines 47-61: reuse the cached English answer, or call the LLM (the
\* call blocks; its result arrives in LLMReturn).
EnglishLookup(t) ==
    /\ pc[t] = "L47"
    /\ IF english_key(t) \in DOMAIN response_cache
       THEN /\ english_response' =
                 [english_response EXCEPT ![t] = response_cache[english_key(t)]]
            /\ trace' = [trace EXCEPT ![t].src_cached = TRUE]
            /\ pc' = [pc EXCEPT ![t] = "L72"]
            /\ UNCHANGED llm_calls
       ELSE /\ llm_calls' = [llm_calls EXCEPT ![Pair(t)] = @ + 1]
            /\ trace' = [trace EXCEPT ![t].n_llm = @ + 1]
            /\ pc' = [pc EXCEPT ![t] = "L61"]
            /\ UNCHANGED english_response
    /\ UNCHANGED <<response_cache, form, translated_response, response,
                   tr_calls, seq, dispatched, parallel>>

\* Lines 61-69: llm.invoke returns or raises; the answer or the apology
\* is stored under the English key.
LLMReturn(t) ==
    /\ pc[t] = "L61"
    /\ \E o \in LLMOutcomes :
        /\ english_response' =
             [english_response EXCEPT ![t] = EnglishResponse(user_query(t), o)]
        /\ response_cache' =
             Put(response_cache, english_key(t), EnglishResponse(user_query(t), o))
        /\ trace' = [trace EXCEPT ![t].quota = (o.kind = "ResourceExhausted")]
    /\ pc' = [pc EXCEPT ![t] = "L72"]
    /\ UNCHANGED <<form, translated_response, response, llm_calls, tr_calls,
                   seq, dispatched, parallel>>

\* Variant: line 73 stores the wrong local.
ReturnEnglish_WrongVar(t) ==
    /\ pc[t] = "L72"
    /\ language(t) = "en"
    /\ response_cache' = Put(response_cache, cache_key(t), translated_response[t])
    /\ response' = [response EXCEPT ![t] = english_response[t]]
    /\ pc' = [pc EXCEPT ![t] = "done"]
    /\ UNCHANGED <<form, english_response, translated_response, llm_calls,
                   tr_calls, trace, seq, dispatched, parallel>>

\* Lines 72-74: English was asked for: store under the full key, return.
ReturnEnglish(t) ==
    /\ pc[t] = "L72"
    /\ language(t) = "en"
    /\ response_cache' = Put(response_cache, cache_key(t), english_response[t])
    /\ response' = [response EXCEPT ![t] = english_response[t]]
    /\ pc' = [pc EXCEPT ![t] = "done"]
    /\ UNCHANGED <<form, english_response, translated_response, llm_calls,
                   tr_calls, trace, seq, dispatched, parallel>>

\* Lines 72, 77-83: another language: reuse the cached translation, or
\* call the translator (the call blocks; its result arrives in TrReturn).
TranslationLookup(t) ==
    /\ pc[t] = "L72"
    /\ language(t) # "en"
    /\ IF translation_key(t) \in DOMAIN response_cache
       THEN /\ translated_response' =
                 [translated_response EXCEPT
                    ![t] = response_cache[translation_key(t)]]
            /\ pc' = [pc EXCEPT ![t] = "L89"]
            /\ UNCHANGED <<tr_calls, trace>>
       ELSE /\ tr_calls' = [tr_calls EXCEPT ![Pair(t)] = @ + 1]
            /\ trace' = [trace EXCEPT ![t].n_tr = @ + 1]
            /\ pc' = [pc EXCEPT ![t] = "L83"]
            /\ UNCHANGED translated_response
    /\ UNCHANGED <<response_cache, form, english_response, response,
                   llm_calls, seq, dispatched, parallel>>

\* Lines 83-87: translate returns or raises; the translation or the
\* untranslated answer is stored under the translation key.
TrReturn(t) ==
    /\ pc[t] = "L83"
    /\ \E o \in TrOutcomes :
        /\ translated_response' =
             [translated_response EXCEPT
                ![t] = TranslatedResponse(english_response[t], target_lang(t), o)]
        /\ response_cache' =
             Put(response_cache, translation_key(t),
                 TranslatedResponse(english_response[t], target_lang(t), o))
        /\ trace' = [trace EXCEPT ![t].tr_failed = (o = "Exception")]
    /\ pc' = [pc EXCEPT ![t] = "L89"]
    /\ UNCHANGED <<form, english_response, response, llm_calls, tr_calls,
                   seq, dispatched, parallel>>

\* Lines 89-90: store under the full key, return.
ReturnTranslated(t) ==
    /\ pc[t] = "L89"
    /\ response_cache' = Put(response_cache, cache_key(t), translated_response[t])
    /\ response' = [response EXCEPT ![t] = translated_response[t]]
    /\ pc' = [pc EXCEPT ![t] = "done"]
    /\ UNCHANGED <<form, english_response, translated_response, llm_calls,
                   tr_calls, trace, seq, dispatched, parallel>>

Next ==
    \E t \in Workers :
        \/ Chat(t)
        \/ EnglishLookup(t)
        \/ LLMReturn(t)
        \/ ReturnEnglish(t)
        \/ TranslationLookup(t)
        \/ TrReturn(t)
        \/ ReturnTranslated(t)

Spec == Init /\ [][Next]_vars

(* ------------------------------ claims -------------------------------- *)

Supported == DOMAIN LANG_MAP

\* The request of worker t has gone through the resolver and returned.
Resolved(t) ==
    /\ pc[t] = "done"
    /\ "user_query" \in DOMAIN form[t]
    /\ form[t]["user_query"] # ""

\* No other request ran while the request of worker t did.
Alone(t) == ~trace[t].overlapped

\* What generate_response_with_gemini(query, "en") returns from the
\* current cache: the cached entry, or whatever the LLM call yields.
EnglishWouldReturn(query) ==
    IF EnglishKey(query) \in DOMAIN response_cache
    THEN {response_cache[EnglishKey(query)]}
    ELSE {EnglishResponse(query, o) : o \in LLMOutcomes}

\* Every text that can be computed for a query: its source answers and
\* their translations.
AnswersFor(query) ==
    LET src == {EnglishResponse(query, o) : o \in LLMOutcomes}
    IN  src \cup {Translate(x, l) : x \in src, l \in Supported}

C2_SourceReused ==
    \A t1, t2 \in Workers :
        ( /\ t1 # t2
          /\ Resolved(t1) /\ Resolved(t2)
          /\ user_query(t1) = user_query(t2)
          /\ language(t1) = "en" /\ language(t2) # "en"
          /\ seq[t2] = seq[t1] + 1
          /\ Alone(t1) /\ Alone(t2) )
        => /\ trace[t2].n_llm = 0
           /\ trace[t1].n_llm + trace[t2].n_llm = (IF trace[t1].hit THEN 0 ELSE 1)
           /\ trace[t2].n_tr = 1 =>
                response[t2] \in {Translate(response[t1], target_lang(t2)),
                                  response[t1]}

C2_Witness ==
    \E t1, t2 \in Workers :
        /\ t1 # t2
        /\ Resolved(t1) /\ Resolved(t2)
        /\ user_query(t1) = user_query(t2)
        /\ language(t1) = "en" /\ language(t2) = "hi"
        /\ seq[t2] = seq[t1] + 1
        /\ Alone(t1) /\ Alone(t2)
        /\ trace[t1].n_llm = 1
        /\ trace[t2].src_cached /\ trace[t2].n_tr = 1
        /\ response[t2] = Translate(response[t1], "hi")

\* C3: a call with a language code outside the supported set, run with no
\* other request, returns what the call for (query, "en") returns from
\* that cache, and never calls the translator.
C3_UnsupportedAsEnglish ==
    \A t \in Workers :
        (Resolved(t) /\ Alone(t) /\ language(t) \notin Supported)
        => /\ trace[t].n_tr = 0
           /\ response[t] \in EnglishWouldReturn(user_query(t))

C5_TranslationFallback ==
    \A t \in Workers :
        (pc[t] = "done" /\ trace[t].src_cached /\ trace[t].tr_failed)
        => /\ response[t] = english_response[t]
           /\ Alone(t) => response[t] = response_cache[english_key(t)]

C5_Witness ==
    \E t \in Workers :
        /\ pc[t] = "done" /\ trace[t].src_cached /\ trace[t].tr_failed
        /\ Alone(t)
        /\ language(t) = "hi"
        /\ english_response[t] = Content(user_query(t), 1)
        /\ response[t] = Content(user_query(t), 1)

\* C6: a request whose query is missing or empty is answered with the
\* fixed message in one step that leaves the cache as it was and calls
\* neither backend, whatever the language field holds.
C6_EmptyQuery ==
    [][ \A t \in Workers :
          ( /\ pc[t] \in {"idle", "done"} /\ seq'[t] # seq[t]
            /\ \/ "user_query" \notin DOMAIN form'[t]
               \/ form'[t]["user_query"] = "" )
          => /\ pc'[t] = "done"
             /\ response'[t] = PROMPT_MSG
             /\ response_cache' = response_cache
             /\ llm_calls' = llm_calls /\ tr_calls' = tr_calls
             /\ trace'[t].n_llm = 0 /\ trace'[t].n_tr = 0 ]_vars

C6_Witness ==
    \E t \in Workers :
        /\ pc[t] = "done"
        /\ form[t] = ("user_query" :> "") @@ ("language" :> "hi")
        /\ response[t] = PROMPT_MSG
        /\ response_cache # EmptyMap

\* C7 as stated: under any dispatch, each (query, language) pair causes at
\* most one LLM call and at most one translation call.
C7_OneCallPerPair ==
    \A p \in Pairs : llm_calls[p] <= 1 /\ tr_calls[p] <= 1

\* C7 amended: as long as no two requests have run at the same time, each
\* (query, language) pair has caused at most one LLM call and at most one
\* translation call.
C7_OneCallPerPairSequential ==
    ~parallel => \A p \in Pairs : llm_calls[p] <= 1 /\ tr_calls[p] <= 1

C7_Witness ==
    /\ ~parallel
    /\ \E t1, t2 \in Workers :
        /\ t1 # t2
        /\ Resolved(t1) /\ Resolved(t2)
        /\ Pair(t1) = Pair(t2)
        /\ llm_calls[Pair(t1)] = 1 /\ tr_calls[Pair(t1)] = 1

\* C8 as stated: under any interleaving, the value stored under a key
\* never changes.
C8_EntriesImmutable ==
    [][ \A k \in DOMAIN response_cache :
          k \in DOMAIN response_cache'
            => response_cache'[k] = response_cache[k] ]_vars

\* C8 amended: a request that has run with no other request at the same
\* time never changes the value stored under a key; an entry is replaced
\* by a different string only by a request that ran concurrently with
\* another one.
C8_EntriesImmutableSequential ==
    [][ \A k \in DOMAIN response_cache :
          (k \in DOMAIN response_cache' /\ response_cache'[k] # response_cache[k])
            => \E t \in Workers : pc'[t] # pc[t] /\ trace[t].overlapped ]_vars

C8_Witness ==
    \E t \in Workers :
        /\ Resolved(t) /\ Alone(t)
        /\ ~trace[t].hit /\ trace[t].n_llm = 1
        /\ language(t) = "en"
        /\ response_cache[cache_key(t)] = response[t]

\* C9: a call for query q never returns an entry computed for another
\* query: what it returns (here, with no other request running) is a
\* source answer for q or a translation of one.
C9_NoForeignEntry ==
    \A t \in Workers :
        (Resolved(t) /\ Alone(t)) => response[t] \in AnswersFor(user_query(t))

\* C10: the cache only grows: every step keeps every key.
C10_CacheOnlyGrows ==
    [][ DOMAIN response_cache \subseteq DOMAIN response_cache' ]_vars

C10_Witness ==
    /\ Cardinality(DOMAIN response_cache) >= 3
    /\ \E t \in Workers : Resolved(t) /\ ~trace[t].hit

\* The source answers a call for a query can produce: a backend text, the
\* quota apology or the generic apology.
SourceAnswersOf(query) ==
    {Content(query, v) : v \in 1..NumAnswers} \cup {QUOTA_MSG, GENERIC_MSG}

\* The source answers of all queries.
SourceAnswers == UNION {SourceAnswersOf(q) : q \in QueryTexts \ {""}}

\* A step of the request worker t is serving.
Step(t) ==
    \/ EnglishLookup(t)
    \/ LLMReturn(t)
    \/ ReturnEnglish(t)
    \/ TranslationLookup(t)
    \/ TrReturn(t)
    \/ ReturnTranslated(t)

\* C11: in every reachable state, whatever the backends do, a call goes on
\* to its return (a running call always has a next step: no outcome stops
\* it) and returns a string: its source answer is the backend text, the quota apology or the
\* generic apology, the one its own LLM call produced when it made one,
\* and (no other request running) it returns that source answer or its
\* translation into the target language.
C11_AlwaysAnswers ==
    [](\A t \in Workers :
        /\ InFlight(t) => ENABLED Step(t)
        /\ (Resolved(t) /\ ~trace[t].hit)
            => /\ english_response[t] \in SourceAnswers
               /\ trace[t].n_llm = 1 =>
                    english_response[t] \in SourceAnswersOf(user_query(t))
               /\ Alone(t) =>
                    response[t] \in
                        {english_response[t],
                         Translate(english_response[t], target_lang(t))})

C11_Witness ==
    \E t \in Workers :
        /\ Resolved(t) /\ Alone(t)
        /\ trace[t].n_llm = 1 /\ trace[t].n_tr = 1 /\ ~trace[t].tr_failed
        /\ english_response[t] = GENERIC_MSG
        /\ response[t] = Translate(GENERIC_MSG, "hi")

\* C12: a request whose (query, language) key is cached when it arrives
\* returns that entry in one step that changes no entry of the cache and
\* calls neither backend, also when the English entry of the query is
\* absent.
C12_HitReturnsEntry ==
    [][ \A t \in Workers :
          ( /\ pc[t] \in {"idle", "done"} /\ seq'[t] # seq[t]
            /\ "user_query" \in DOMAIN form'[t]
            /\ form'[t]["user_query"] # ""
            /\ CacheKey(form'[t]["user_query"],
                        FormGet(form'[t], "language", "en"))
                 \in DOMAIN response_cache )
          => /\ pc'[t] = "done"
             /\ response'[t] =
                  response_cache[CacheKey(form'[t]["user_query"],
                                          FormGet(form'[t], "language", "en"))]
             /\ response_cache' = response_cache
             /\ llm_calls' = llm_calls /\ tr_calls' = tr_calls
             /\ trace'[t].n_llm = 0 /\ trace'[t].n_tr = 0 ]_vars

C12_Witness ==
    \E t \in Workers :
        /\ Resolved(t) /\ trace[t].hit
        /\ english_key(t) \notin DOMAIN response_cache
        /\ response[t] = response_cache[cache_key(t)]

\* C13: after a call for (q, l) that ran with no other request has
\* returned r, the cache holds an entry for (q, "en"), the entry r for
\* (q, l), the entry r for (q, target language) when l is a supported
\* non-source language, and the entry r for (q, "en") when l is "en".
C13_EntriesAfterReturn ==
    \A t \in Workers :
        (Resolved(t) /\ Alone(t))
        => /\ english_key(t) \in DOMAIN response_cache
           /\ cache_key(t) \in DOMAIN response_cache
           /\ response_cache[cache_key(t)] = response[t]
           /\ language(t) \in Supported \ {"en"} =>
                /\ translation_key(t) \in DOMAIN response_cache
                /\ response_cache[translation_key(t)] = response[t]
           /\ language(t) = "en" => response_cache[english_key(t)] = response[t]

\* C14 as stated: once a call whose translation failed has stored the
\* untranslated answer under (q, l), that entry, which is what every
\* later call for (q, l) returns at line 44, stays the untranslated
\* answer.
C14_FailureEntryStays ==
    [][ \A t \in Workers :
          ( /\ pc[t] = "done" /\ pc'[t] = "done" /\ seq'[t] = seq[t]
            /\ trace[t].tr_failed
            /\ response_cache[cache_key(t)] = english_response[t] )
          => response_cache'[cache_key(t)] = english_response[t] ]_vars

\* C14 amended: after a call for (q, l) that ran with no other request and
\* whose translation failed, every later call for (q, l) returns the
\* untranslated answer that call returned and does not call the
\* translator.
C14_FailureSticky ==
    \A t1, t2 \in Workers :
        ( /\ t1 # t2
          /\ Resolved(t1) /\ Resolved(t2)
          /\ trace[t1].tr_failed /\ Alone(t1)
          /\ Pair(t2) = Pair(t1)
          /\ seq[t2] > seq[t1] )
        => /\ response[t1] = english_response[t1]
           /\ response[t2] = response[t1]
           /\ trace[t2].n_tr = 0

C14_Witness ==
    \E t1, t2 \in Workers :
        /\ t1 # t2
        /\ Resolved(t1) /\ Resolved(t2)
        /\ trace[t1].tr_failed /\ Alone(t1)
        /\ Pair(t2) = Pair(t1)
        /\ seq[t2] > seq[t1]
        /\ language(t1) = "hi"
        /\ response[t1] = Content(user_query(t1), 1)
        /\ response[t2] = Content(user_query(t1), 1)

\* C15 as stated: in every reachable state, when the cache holds entries
\* for (q, "en") and for (q, l), l a supported non-source language, the
\* (q, l) entry is the translation of the (q, "en") entry or that entry.
C15_TranslationOfCachedSource ==
    \A q \in QueryTexts \ {""} :
        \A l \in Supported \ {"en"} :
            ( /\ EnglishKey(q) \in DOMAIN response_cache
              /\ CacheKey(q, l) \in DOMAIN response_cache )
            => response_cache[CacheKey(q, l)] \in
                 {Translate(response_cache[EnglishKey(q)], l),
                  response_cache[EnglishKey(q)]}

\* C15 amended: after a call for (q, l), l a supported non-source
\* language, that ran with no other request and did not return an entry
\* already cached for (q, l), the (q, l) entry is the translation of the
\* (q, "en") entry or that entry.
C15_TranslationOfCachedSourceAlone ==
    \A t \in Workers :
        ( /\ Resolved(t) /\ Alone(t) /\ ~trace[t].hit
          /\ language(t) \in Supported \ {"en"} )
        => /\ english_key(t) \in DOMAIN response_cache
           /\ cache_key(t) \in DOMAIN response_cache
           /\ response_cache[cache_key(t)] \in
                {Translate(response_cache[english_key(t)], language(t)),
                 response_cache[english_key(t)]}

C15_Witness ==
    \E t \in Workers :
        /\ Resolved(t) /\ Alone(t) /\ ~trace[t].hit
        /\ language(t) = "hi"
        /\ trace[t].src_cached
        /\ response_cache[cache_key(t)] =
             Translate(response_cache[english_key(t)], "hi")

====
